---- MODULE Spec2Model ----
(***************************************************************************)
(* A model of the SHT4x driver (package sht4x, sht4x.go / constants.go).   *)
(*                                                                         *)
(* One device handle (Dev) is shared by two caller threads, which          *)
(* call its exported methods, and by the goroutines SenseContinuous        *)
(* spawns.  Every statement of a method that touches shared state, the     *)
(* bus or the clock is one step.  A bus transfer (i2c.Dev.Tx) may fail or  *)
(* succeed; a response read returns one of Responses.                      *)
(***************************************************************************)
EXTENDS Integers, Sequences, FiniteSets, TLC

\* ------------------------------------------------------------- bounds

\* The number of SenseContinuous calls that spawn a worker (worker, stop
\* channel and sample channel k belong to the k-th spawn).
MaxWorkers == 2

\* The threads that call the handle's methods concurrently.
Callers == {1, 2}
Workers == 1..MaxWorkers

\* ------------------------------------------------- constants.go

commandHeaterHigh1s == 57
commandHeaterHigh100ms == 50
commandHeaterMedium1s == 47
commandHeaterMedium100ms == 36
commandHeaterLow1s == 30
commandHeaterLow100ms == 21
commandMeasureHighPrecision == 253
commandReadSerialNumber == 137
commandSoftReset == 148

HeaterLow == 0
HeaterLowLong == 1
HeaterMedium == 2
HeaterMediumLong == 3
HeaterHigh == 4
HeaterHighLong == 5

\* The heater modes a caller passes: the six defined ones and one value on
\* each side of their range.
Modes == (HeaterLow - 1)..(HeaterHighLong + 1)
\* The modes of the specification that runs every method: a short mode, a
\* long one and an undefined one.
SomeModes == {HeaterLow, HeaterHighLong, HeaterHighLong + 1}

\* ------------------------------------------------- pure functions

RECURSIVE XorBits(_, _, _)
\* a ^ b on n-bit values.
XorBits(a, b, n) ==
    IF n = 0 THEN 0
    ELSE (((a % 2) + (b % 2)) % 2) + (2 * XorBits(a \div 2, b \div 2, n - 1))

RECURSIVE CrcBits(_, _)
\* The inner loop of checksum: j iterations of the shift-and-xor step on uint8.
CrcBits(crc, j) ==
    IF j = 0 THEN crc
    ELSE CrcBits(IF crc >= 128
                 THEN XorBits((crc * 2) % 256, 49, 8)
                 ELSE (crc * 2) % 256,
                 j - 1)

\* The values of a byte.
Bytes == 0..255
\* a ^ b on uint8 and the eight iterations of the inner loop, tabulated.
Xor8 == [a \in Bytes |-> [b \in Bytes |-> XorBits(a, b, 8)]]
CrcByte == [crc \in Bytes |-> CrcBits(crc, 8)]

RECURSIVE CrcBytes(_, _, _)
\* The outer loop of checksum, from byte i of data on.
CrcBytes(crc, data, i) ==
    IF i > Len(data) THEN crc
    ELSE CrcBytes(CrcByte[Xor8[crc][data[i]]], data, i + 1)

checksumInitZero(data) == CrcBytes(0, data, 1)

checksum(data) == CrcBytes(255, data, 1)

verifyChecksum(data) ==
    IF Len(data) # 3 THEN "invalid data length"
    ELSE IF data[3] # checksum(SubSeq(data, 1, 2)) THEN "invalid checksum"
    ELSE "nil"

readUint(msb, lsb) == msb * 256 + lsb

\* physic.Temperature(temp*1000)*physic.MilliCelsius + physic.ZeroCelsius with
\* temp = -45 + 175*tTicks/65535, in units of 10^6 nK (physic.MilliKelvin).
\* temp*1000 is 35000*tTicks/13107 - 45000, which the conversion to an
\* integer truncates toward zero; the products are split so that none exceeds
\* 32 bits.  (Where the exact value is no integer it is at least 1/13107
\* away from one, far more than float64's rounding error, so the exact
\* arithmetic gives the float64 result for every tTicks.)
TicksToTemperature(tTicks) ==
    LET q == tTicks \div 13107
        r == tTicks % 13107
        floor == (35000 * q) + ((35000 * r) \div 13107) - 45000
        exact == (35000 * r) % 13107 = 0
    IN  273150 + (IF floor >= 0 \/ exact THEN floor ELSE floor + 1)

TicksToHumidityNoUpperClamp(rhTicks) ==
    LET q == rhTicks \div 13107
        r == rhTicks % 13107
    IN  IF 125 * rhTicks < 6 * 65535 THEN 0
        ELSE (250000 * q) + (19 * r) + ((967 * r) \div 13107) - 60000

\* rh = -6 + 125*rhTicks/65535 clamped to [0, 100], then
\* physic.RelativeHumidity(rh*10000)*physic.MicroRH, in units of
\* physic.MicroRH.  rh*10000 is 250000*rhTicks/13107 - 60000, and
\* 250000 = 19*13107 + 967.
TicksToHumidity(rhTicks) ==
    LET q == rhTicks \div 13107
        r == rhTicks % 13107
    IN  IF 125 * rhTicks < 6 * 65535 THEN 0
        ELSE IF 125 * rhTicks > 106 * 65535 THEN 1000000
        ELSE (250000 * q) + (19 * r) + ((967 * r) \div 13107) - 60000

\* The zero physic.Env.
ZeroEnv == [Temperature |-> 0, Humidity |-> 0]
\* An Env holding an earlier reading (20 degrees Celsius, 50 %rH).
PriorEnv == [Temperature |-> 293150, Humidity |-> 500000]

ParseDataPartial(data, e) ==
    IF verifyChecksum(SubSeq(data, 1, 3)) # "nil"
    THEN [err |-> verifyChecksum(SubSeq(data, 1, 3)), env |-> e]
    ELSE IF verifyChecksum(SubSeq(data, 4, 6)) # "nil"
    THEN [err |-> verifyChecksum(SubSeq(data, 4, 6)),
          env |-> [e EXCEPT !.Temperature = TicksToTemperature(readUint(data[1], data[2]))]]
    ELSE [err |-> "nil",
          env |-> [Temperature |-> TicksToTemperature(readUint(data[1], data[2])),
                   Humidity |-> TicksToHumidity(readUint(data[4], data[5]))]]

\* parseTemperature after a successful 6-byte read of data into e: the error
\* and the Env it leaves.
ParseData(data, e) ==
    IF verifyChecksum(SubSeq(data, 1, 3)) # "nil"
    THEN [err |-> verifyChecksum(SubSeq(data, 1, 3)), env |-> e]
    ELSE IF verifyChecksum(SubSeq(data, 4, 6)) # "nil"
    THEN [err |-> verifyChecksum(SubSeq(data, 4, 6)), env |-> e]
    ELSE [err |-> "nil",
          env |-> [Temperature |-> TicksToTemperature(readUint(data[1], data[2])),
                   Humidity |-> TicksToHumidity(readUint(data[4], data[5]))]]

RECURSIVE OrBits(_, _, _)
\* a | b on n-bit values.
OrBits(a, b, n) ==
    IF n = 0 THEN 0
    ELSE (IF (a % 2) + (b % 2) > 0 THEN 1 ELSE 0) + (2 * OrBits(a \div 2, b \div 2, n - 1))

\* A uint32 is kept as its four bytes, most significant first (its value
\* exceeds the model checker's integers).
Zero32 == <<0, 0, 0, 0>>
\* uint32(b) of a byte b.
Uint32(b) == <<0, 0, 0, b>>
\* u << n on uint32, n a multiple of 8: the bytes shifted out are lost.
Shl32(u, n) ==
    [i \in 1..4 |-> IF i + (n \div 8) <= 4 THEN u[i + (n \div 8)] ELSE 0]
\* u | v on uint32.
Or32(u, v) == [i \in 1..4 |-> OrBits(u[i], v[i], 8)]

ParseSerialWithCrc(data) ==
    IF verifyChecksum(SubSeq(data, 1, 3)) # "nil"
    THEN [err |-> verifyChecksum(SubSeq(data, 1, 3)), val |-> Zero32]
    ELSE IF verifyChecksum(SubSeq(data, 4, 6)) # "nil"
    THEN [err |-> verifyChecksum(SubSeq(data, 4, 6)), val |-> Zero32]
    ELSE [err |-> "nil",
          val |-> Or32(Or32(Or32(Shl32(Uint32(data[1]), 24), Shl32(Uint32(data[2]), 16)),
                            Shl32(Uint32(data[3]), 8)),
                       Uint32(data[4]))]

\* GetSerial after a successful 6-byte read: the serial and the error.
ParseSerial(data) ==
    IF verifyChecksum(SubSeq(data, 1, 3)) # "nil"
    THEN [err |-> verifyChecksum(SubSeq(data, 1, 3)), val |-> Zero32]
    ELSE IF verifyChecksum(SubSeq(data, 4, 6)) # "nil"
    THEN [err |-> verifyChecksum(SubSeq(data, 4, 6)), val |-> Zero32]
    ELSE [err |-> "nil",
          val |-> Or32(Or32(Or32(Shl32(Uint32(data[1]), 24), Shl32(Uint32(data[2]), 16)),
                            Shl32(Uint32(data[4]), 8)),
                       Uint32(data[5]))]

HeaterCmdNoDefault(mode) ==
    LET interval == 110
        long == 1100
    IN  CASE mode = HeaterLowLong -> [ok |-> TRUE, cmd |-> commandHeaterLow1s, interval |-> long]
          [] mode = HeaterMedium -> [ok |-> TRUE, cmd |-> commandHeaterMedium100ms, interval |-> interval]
          [] mode = HeaterMediumLong -> [ok |-> TRUE, cmd |-> commandHeaterMedium1s, interval |-> long]
          [] mode = HeaterHigh -> [ok |-> TRUE, cmd |-> commandHeaterHigh100ms, interval |-> interval]
          [] mode = HeaterHighLong -> [ok |-> TRUE, cmd |-> commandHeaterHigh1s, interval |-> long]
          [] OTHER -> [ok |-> TRUE, cmd |-> commandHeaterLow100ms, interval |-> interval]

HeaterCmdShortLong(mode) ==
    LET interval == 110
    IN  CASE mode = HeaterLow -> [ok |-> TRUE, cmd |-> commandHeaterLow100ms, interval |-> interval]
          [] mode = HeaterLowLong -> [ok |-> TRUE, cmd |-> commandHeaterLow1s, interval |-> interval]
          [] mode = HeaterMedium -> [ok |-> TRUE, cmd |-> commandHeaterMedium100ms, interval |-> interval]
          [] mode = HeaterMediumLong -> [ok |-> TRUE, cmd |-> commandHeaterMedium1s, interval |-> interval]
          [] mode = HeaterHigh -> [ok |-> TRUE, cmd |-> commandHeaterHigh100ms, interval |-> interval]
          [] mode = HeaterHighLong -> [ok |-> TRUE, cmd |-> commandHeaterHigh1s, interval |-> interval]
          [] OTHER -> [ok |-> FALSE, cmd |-> 0, interval |-> interval]

\* The switch of ActivateHeater: whether the mode is defined, its command
\* byte and the time (ms) the call sleeps before reading.
HeaterCmd(mode) ==
    LET interval == 110
        long == 1100
    IN  CASE mode = HeaterLow -> [ok |-> TRUE, cmd |-> commandHeaterLow100ms, interval |-> interval]
          [] mode = HeaterLowLong -> [ok |-> TRUE, cmd |-> commandHeaterLow1s, interval |-> long]
          [] mode = HeaterMedium -> [ok |-> TRUE, cmd |-> commandHeaterMedium100ms, interval |-> interval]
          [] mode = HeaterMediumLong -> [ok |-> TRUE, cmd |-> commandHeaterMedium1s, interval |-> long]
          [] mode = HeaterHigh -> [ok |-> TRUE, cmd |-> commandHeaterHigh100ms, interval |-> interval]
          [] mode = HeaterHighLong -> [ok |-> TRUE, cmd |-> commandHeaterHigh1s, interval |-> long]
          [] OTHER -> [ok |-> FALSE, cmd |-> 0, interval |-> interval]

\* ------------------------------------------------- the bus

\* A two-byte block framed with its CRC, as the sensor sends it.
Frame(a, b) == <<a, b, checksum(<<a, b>>)>>
\* The same block with the lowest bit of its CRC byte flipped.
BadFrame(a, b) == <<a, b, XorBits(checksum(<<a, b>>), 1, 8)>>

\* The 6-byte responses a read may return: a sound one, and one with each
\* block corrupt.
Responses ==
    { Frame(102, 102) \o Frame(128, 0),
      BadFrame(102, 102) \o Frame(128, 0),
      Frame(102, 102) \o BadFrame(128, 0) }

\* ------------------------------------------------- state

VARIABLES
    mu,             \* d.mu: the process holding it, or Free
    stop,           \* d.stop: 0 (nil) or the stop channel's number
    wg,             \* d.wg: its counter
    thr,            \* each caller thread: its call in progress and its locals
    wk,             \* each spawned goroutine: its position and its locals
    stopClosed,     \* stopClosed[k]: stop channel k is closed
    sensingClosed,  \* sensingClosed[k]: sample channel k is closed
    spawned,        \* the number of goroutines spawned so far
    dev,            \* the handle: whether New has returned it, and d.Serial
    calc            \* the pure function last applied, its input and its result

vars == <<mu, stop, wg, thr, wk, stopClosed, sensingClosed, spawned, dev, calc>>

Free == <<"none", 0>>
Caller(t) == <<"caller", t>>
Worker(k) == <<"worker", k>>

\* The entries of a process's trace: what its call (or cycle) has done so far.
Did(k, v) == [k |-> k, v |-> v]

Ops == {"Sense", "SenseContinuous", "Halt", "ActivateHeater", "GetSerial", "Reset"}

\* A caller thread between calls.  Within a call: op and mode are the method
\* and its argument, ret the error it returns, e the Env it fills (the
\* caller's, passed to Sense; the local one ActivateHeater returns), serial
\* what GetSerial returns, data the response the call has read, closed the
\* stop channel the call closed, trace the bus transfers and sleeps the call
\* has made.
IdleThread ==
    [pc |-> "idle", op |-> "none", mode |-> 0, ret |-> "nil", e |-> ZeroEnv,
     serial |-> Zero32, data |-> <<>>, closed |-> 0, trace |-> <<>>]

\* No pure function applied.
NoCalc == [fn |-> "none", in |-> <<>>, out |-> <<>>]

\* The serial numbers a successful New leaves in d.Serial.
Serials == {ParseSerial(r).val : r \in {x \in Responses : ParseSerial(x).err = "nil"}}

\* A goroutine not spawned yet.  While it runs: stop is the stop channel it
\* was given, err and e the result of its cycle's d.sense, trace the bus
\* transfers and sleeps of the cycle.
NoWorker ==
    [pc |-> "none", stop |-> 0, err |-> "nil", e |-> ZeroEnv, trace |-> <<>>]

Init ==
    /\ mu = Free
    /\ stop = 0
    /\ wg = 0
    /\ thr = [t \in Callers |-> IdleThread]
    /\ wk = [k \in Workers |-> NoWorker]
    /\ stopClosed = [k \in Workers |-> FALSE]
    /\ sensingClosed = [k \in Workers |-> FALSE]
    /\ spawned = 0
    /\ dev \in [state : {"ready"}, Serial : Serials]
    /\ calc = NoCalc

\* The SenseContinuous calls in progress that have yet to spawn their worker.
Spawning == {t \in Callers : thr[t].op = "SenseContinuous" /\ thr[t].pc \in {"lock", "check", "wait", "spawn"}}

\* A caller thread calls one of the methods ops with a mode of modes.
CallOf(t, ops, modes) ==
    /\ dev.state = "ready"
    /\ thr[t].pc = "idle"
    /\ \E o \in ops, m \in modes \cup {0}, env \in {ZeroEnv, PriorEnv} :
        /\ (o # "ActivateHeater") => (m = 0)
        /\ (o = "ActivateHeater") => (m \in modes)
        /\ (o # "Sense") => (env = ZeroEnv)
        /\ (o = "SenseContinuous") => (spawned + Cardinality(Spawning) < MaxWorkers)
        /\ thr' = [thr EXCEPT ![t] =
                     [IdleThread EXCEPT !.pc = IF o \in {"GetSerial", "Reset"} THEN "send" ELSE "lock",
                                        !.op = o, !.mode = m, !.e = env]]
    /\ UNCHANGED <<mu, stop, wg, wk, stopClosed, sensingClosed, spawned, dev, calc>>

\* A caller thread calls one of the handle's exported methods.
Call(t) == CallOf(t, Ops, SomeModes)

LockHeaterUnguarded(t) ==
    /\ thr[t].pc = "lock"
    /\ thr[t].op = "ActivateHeater" \/ mu = Free
    /\ mu' = Caller(t)
    /\ thr' = [thr EXCEPT ![t].pc = "check"]
    /\ UNCHANGED <<stop, wg, wk, stopClosed, sensingClosed, spawned, dev, calc>>

\* d.mu.Lock() at the head of Sense, SenseContinuous, Halt and ActivateHeater.
Lock(t) ==
    /\ thr[t].pc = "lock"
    /\ mu = Free
    /\ mu' = Caller(t)
    /\ thr' = [thr EXCEPT ![t].pc = "check"]
    /\ UNCHANGED <<stop, wg, wk, stopClosed, sensingClosed, spawned, dev, calc>>

\* The deferred d.mu.Unlock(): the call returns.
Unlock(t) ==
    /\ thr[t].pc = "unlock"
    /\ mu' = Free
    /\ thr' = [thr EXCEPT ![t] = IdleThread]
    /\ UNCHANGED <<stop, wg, wk, stopClosed, sensingClosed, spawned, dev, calc>>

\* GetSerial and Reset, which take no lock, return.
Return(t) ==
    /\ thr[t].pc = "return" /\ thr[t].op \in {"GetSerial", "Reset"}
    /\ thr' = [thr EXCEPT ![t] = IdleThread]
    /\ UNCHANGED <<mu, stop, wg, wk, stopClosed, sensingClosed, spawned, dev, calc>>

\* ------------------------------------------------- Sense

AlreadySensingNever == FALSE

\* Sense's test of d.stop.
AlreadySensing == stop # 0

SenseCheck(t) ==
    /\ thr[t].pc = "check" /\ thr[t].op = "Sense"
    /\ thr' = [thr EXCEPT ![t] =
                 IF AlreadySensing
                 THEN [@ EXCEPT !.pc = "unlock", !.ret = "already sensing continuously"]
                 ELSE [@ EXCEPT !.pc = "send"]]
    /\ UNCHANGED <<mu, stop, wg, wk, stopClosed, sensingClosed, spawned, dev, calc>>

\* d.sense: the measurement command.
SenseSend(t) ==
    /\ thr[t].pc = "send" /\ thr[t].op = "Sense"
    /\ \E ok \in BOOLEAN :
        /\ thr' = [thr EXCEPT ![t] =
                     IF ok
                     THEN [@ EXCEPT !.pc = "sleep",
                                    !.trace = Append(@, Did("cmd", commandMeasureHighPrecision))]
                     ELSE [@ EXCEPT !.pc = "unlock", !.ret = "bus error",
                                    !.trace = Append(@, Did("cmdfail", commandMeasureHighPrecision))]]
    /\ UNCHANGED <<mu, stop, wg, wk, stopClosed, sensingClosed, spawned, dev, calc>>

\* d.sense: time.Sleep(10 * time.Millisecond).
SenseSleep(t) ==
    /\ thr[t].pc = "sleep" /\ thr[t].op = "Sense"
    /\ thr' = [thr EXCEPT ![t] = [@ EXCEPT !.pc = "read", !.trace = Append(@, Did("sleep", 10))]]
    /\ UNCHANGED <<mu, stop, wg, wk, stopClosed, sensingClosed, spawned, dev, calc>>

\* d.parseTemperature(e): the read, the two checksums, the conversion.
SenseRead(t) ==
    /\ thr[t].pc = "read" /\ thr[t].op = "Sense"
    /\ \E ok \in BOOLEAN, data \in Responses :
        /\ thr' = [thr EXCEPT ![t] =
                     IF ok
                     THEN [@ EXCEPT !.pc = "unlock", !.data = data,
                                    !.ret = ParseData(data, thr[t].e).err,
                                    !.e = ParseData(data, thr[t].e).env,
                                    !.trace = Append(@, Did("read", 6))]
                     ELSE [@ EXCEPT !.pc = "unlock", !.ret = "bus error",
                                    !.trace = Append(@, Did("readfail", 6))]]
    /\ UNCHANGED <<mu, stop, wg, wk, stopClosed, sensingClosed, spawned, dev, calc>>

Sense(t) == SenseCheck(t) \/ SenseSend(t) \/ SenseSleep(t) \/ SenseRead(t)

\* ------------------------------------------------- SenseContinuous

\* close(d.stop); d.stop = nil, when a stop channel is present.
SenseContinuousCheck(t) ==
    /\ thr[t].pc = "check" /\ thr[t].op = "SenseContinuous"
    /\ IF stop # 0
       THEN /\ stopClosed' = [stopClosed EXCEPT ![stop] = TRUE]
            /\ stop' = 0
            /\ thr' = [thr EXCEPT ![t] = [@ EXCEPT !.pc = "wait", !.closed = stop]]
       ELSE /\ thr' = [thr EXCEPT ![t].pc = "spawn"]
            /\ UNCHANGED <<stop, stopClosed>>
    /\ UNCHANGED <<mu, wg, wk, sensingClosed, spawned, dev, calc>>

SenseContinuousNoWait(t) ==
    /\ thr[t].pc = "wait" /\ thr[t].op = "SenseContinuous"
    /\ thr' = [thr EXCEPT ![t].pc = "spawn"]
    /\ UNCHANGED <<mu, stop, wg, wk, stopClosed, sensingClosed, spawned, dev, calc>>

\* d.wg.Wait() in SenseContinuous.
SenseContinuousWait(t) ==
    /\ thr[t].pc = "wait" /\ thr[t].op = "SenseContinuous"
    /\ wg = 0
    /\ thr' = [thr EXCEPT ![t].pc = "spawn"]
    /\ UNCHANGED <<mu, stop, wg, wk, stopClosed, sensingClosed, spawned, dev, calc>>

\* sensing := make(chan physic.Env); d.stop = make(chan struct{});
\* d.wg.Add(1); go func() {...}(); return sensing, nil.
SenseContinuousSpawn(t) ==
    /\ thr[t].pc = "spawn" /\ thr[t].op = "SenseContinuous"
    /\ spawned < MaxWorkers
    /\ spawned' = spawned + 1
    /\ stop' = spawned + 1
    /\ wg' = wg + 1
    /\ wk' = [wk EXCEPT ![spawned + 1].pc = "spawned"]
    /\ thr' = [thr EXCEPT ![t].pc = "unlock"]
    /\ UNCHANGED <<mu, stopClosed, sensingClosed, dev, calc>>

SenseContinuous(t) ==
    SenseContinuousCheck(t) \/ SenseContinuousWait(t) \/ SenseContinuousSpawn(t)

\* ------------------------------------------------- Halt

HaltCheckNotSensing(t) ==
    /\ thr[t].pc = "check" /\ thr[t].op = "Halt"
    /\ IF stop = 0
       THEN /\ thr' = [thr EXCEPT ![t] = [@ EXCEPT !.pc = "unlock", !.ret = "not sensing"]]
            /\ UNCHANGED <<stop, stopClosed>>
       ELSE /\ stopClosed' = [stopClosed EXCEPT ![stop] = TRUE]
            /\ stop' = 0
            /\ thr' = [thr EXCEPT ![t] = [@ EXCEPT !.pc = "wait", !.closed = stop]]
    /\ UNCHANGED <<mu, wg, wk, sensingClosed, spawned, dev, calc>>

\* if d.stop == nil { return nil }; close(d.stop); d.stop = nil.
HaltCheck(t) ==
    /\ thr[t].pc = "check" /\ thr[t].op = "Halt"
    /\ IF stop = 0
       THEN /\ thr' = [thr EXCEPT ![t].pc = "unlock"]
            /\ UNCHANGED <<stop, stopClosed>>
       ELSE /\ stopClosed' = [stopClosed EXCEPT ![stop] = TRUE]
            /\ stop' = 0
            /\ thr' = [thr EXCEPT ![t] = [@ EXCEPT !.pc = "wait", !.closed = stop]]
    /\ UNCHANGED <<mu, wg, wk, sensingClosed, spawned, dev, calc>>

HaltNoWait(t) ==
    /\ thr[t].pc = "wait" /\ thr[t].op = "Halt"
    /\ thr' = [thr EXCEPT ![t].pc = "unlock"]
    /\ UNCHANGED <<mu, stop, wg, wk, stopClosed, sensingClosed, spawned, dev, calc>>

\* d.wg.Wait() in Halt.
HaltWait(t) ==
    /\ thr[t].pc = "wait" /\ thr[t].op = "Halt"
    /\ wg = 0
    /\ thr' = [thr EXCEPT ![t].pc = "unlock"]
    /\ UNCHANGED <<mu, stop, wg, wk, stopClosed, sensingClosed, spawned, dev, calc>>

Halt(t) == HaltCheck(t) \/ HaltWait(t)

\* ------------------------------------------------- ActivateHeater

\* The switch on mode: an undefined mode returns the error.
ActivateHeaterCheck(t) ==
    /\ thr[t].pc = "check" /\ thr[t].op = "ActivateHeater"
    /\ thr' = [thr EXCEPT ![t] =
                 IF HeaterCmd(thr[t].mode).ok
                 THEN [@ EXCEPT !.pc = "send"]
                 ELSE [@ EXCEPT !.pc = "unlock", !.ret = "invalid heater mode"]]
    /\ UNCHANGED <<mu, stop, wg, wk, stopClosed, sensingClosed, spawned, dev, calc>>

\* d.c.Tx([]byte{cmd}, nil).
ActivateHeaterSend(t) ==
    /\ thr[t].pc = "send" /\ thr[t].op = "ActivateHeater"
    /\ \E ok \in BOOLEAN :
        /\ thr' = [thr EXCEPT ![t] =
                     IF ok
                     THEN [@ EXCEPT !.pc = "sleep",
                                    !.trace = Append(@, Did("cmd", HeaterCmd(thr[t].mode).cmd))]
                     ELSE [@ EXCEPT !.pc = "unlock", !.ret = "bus error",
                                    !.trace = Append(@, Did("cmdfail", HeaterCmd(thr[t].mode).cmd))]]
    /\ UNCHANGED <<mu, stop, wg, wk, stopClosed, sensingClosed, spawned, dev, calc>>

\* time.Sleep(interval).
ActivateHeaterSleep(t) ==
    /\ thr[t].pc = "sleep" /\ thr[t].op = "ActivateHeater"
    /\ thr' = [thr EXCEPT ![t] =
                 [@ EXCEPT !.pc = "read",
                           !.trace = Append(@, Did("sleep", HeaterCmd(thr[t].mode).interval))]]
    /\ UNCHANGED <<mu, stop, wg, wk, stopClosed, sensingClosed, spawned, dev, calc>>

\* err := d.parseTemperature(&e); return e, err.
ActivateHeaterRead(t) ==
    /\ thr[t].pc = "read" /\ thr[t].op = "ActivateHeater"
    /\ \E ok \in BOOLEAN, data \in Responses :
        /\ thr' = [thr EXCEPT ![t] =
                     IF ok
                     THEN [@ EXCEPT !.pc = "unlock", !.data = data,
                                    !.ret = ParseData(data, thr[t].e).err,
                                    !.e = ParseData(data, thr[t].e).env,
                                    !.trace = Append(@, Did("read", 6))]
                     ELSE [@ EXCEPT !.pc = "unlock", !.ret = "bus error",
                                    !.trace = Append(@, Did("readfail", 6))]]
    /\ UNCHANGED <<mu, stop, wg, wk, stopClosed, sensingClosed, spawned, dev, calc>>

ActivateHeater(t) ==
    ActivateHeaterCheck(t) \/ ActivateHeaterSend(t) \/ ActivateHeaterSleep(t) \/ ActivateHeaterRead(t)

\* ------------------------------------------------- GetSerial, Reset

\* d.c.Tx([]byte{commandReadSerialNumber}, nil): no lock is taken.
GetSerialSend(t) ==
    /\ thr[t].pc = "send" /\ thr[t].op = "GetSerial"
    /\ \E ok \in BOOLEAN :
        /\ thr' = [thr EXCEPT ![t] =
                     IF ok
                     THEN [@ EXCEPT !.pc = "sleep",
                                    !.trace = Append(@, Did("cmd", commandReadSerialNumber))]
                     ELSE [@ EXCEPT !.pc = "return", !.ret = "bus error", !.serial = Zero32,
                                    !.trace = Append(@, Did("cmdfail", commandReadSerialNumber))]]
    /\ UNCHANGED <<mu, stop, wg, wk, stopClosed, sensingClosed, spawned, dev, calc>>

\* time.Sleep(1 * time.Millisecond).
GetSerialSleep(t) ==
    /\ thr[t].pc = "sleep" /\ thr[t].op = "GetSerial"
    /\ thr' = [thr EXCEPT ![t] = [@ EXCEPT !.pc = "read", !.trace = Append(@, Did("sleep", 1))]]
    /\ UNCHANGED <<mu, stop, wg, wk, stopClosed, sensingClosed, spawned, dev, calc>>

\* The read, the two checksums, the serial number.
GetSerialRead(t) ==
    /\ thr[t].pc = "read" /\ thr[t].op = "GetSerial"
    /\ \E ok \in BOOLEAN, data \in Responses :
        /\ thr' = [thr EXCEPT ![t] =
                     IF ok
                     THEN [@ EXCEPT !.pc = "return", !.data = data,
                                    !.ret = ParseSerial(data).err,
                                    !.serial = ParseSerial(data).val,
                                    !.trace = Append(@, Did("read", 6))]
                     ELSE [@ EXCEPT !.pc = "return", !.ret = "bus error", !.serial = Zero32,
                                    !.trace = Append(@, Did("readfail", 6))]]
    /\ UNCHANGED <<mu, stop, wg, wk, stopClosed, sensingClosed, spawned, dev, calc>>

GetSerial(t) == GetSerialSend(t) \/ GetSerialSleep(t) \/ GetSerialRead(t)

\* err := d.c.Tx([]byte{commandSoftReset}, nil): no lock is taken.
ResetSend(t) ==
    /\ thr[t].pc = "send" /\ thr[t].op = "Reset"
    /\ \E ok \in BOOLEAN :
        /\ thr' = [thr EXCEPT ![t] =
                     [@ EXCEPT !.pc = "sleep",
                               !.ret = IF ok THEN "nil" ELSE "bus error",
                               !.trace = Append(@, Did(IF ok THEN "cmd" ELSE "cmdfail", commandSoftReset))]]
    /\ UNCHANGED <<mu, stop, wg, wk, stopClosed, sensingClosed, spawned, dev, calc>>

\* time.Sleep(1 * time.Millisecond); return err.
ResetSleep(t) ==
    /\ thr[t].pc = "sleep" /\ thr[t].op = "Reset"
    /\ thr' = [thr EXCEPT ![t] = [@ EXCEPT !.pc = "return", !.trace = Append(@, Did("sleep", 1))]]
    /\ UNCHANGED <<mu, stop, wg, wk, stopClosed, sensingClosed, spawned, dev, calc>>

Reset(t) == ResetSend(t) \/ ResetSleep(t)

\* ------------------------------------------------- the worker goroutine

\* The goroutine starts: it evaluates d.stop, unsynchronised, as the stop
\* argument of sensingContinuous (the value d.stop has when it runs), floors
\* the interval and creates the ticker.
WorkerStart(k) ==
    /\ wk[k].pc = "spawned"
    /\ wk' = [wk EXCEPT ![k] = [@ EXCEPT !.pc = "lock", !.stop = stop]]
    /\ UNCHANGED <<mu, stop, wg, thr, stopClosed, sensingClosed, spawned, dev, calc>>

\* e := physic.Env{}; d.mu.Lock().
WorkerLock(k) ==
    /\ wk[k].pc = "lock"
    /\ mu = Free
    /\ mu' = Worker(k)
    /\ wk' = [wk EXCEPT ![k] = [@ EXCEPT !.pc = "send", !.e = ZeroEnv]]
    /\ UNCHANGED <<stop, wg, thr, stopClosed, sensingClosed, spawned, dev, calc>>

WorkerSendIgnoreErr(k) ==
    /\ wk[k].pc = "send"
    /\ \E ok \in BOOLEAN :
        /\ wk' = [wk EXCEPT ![k] =
                    IF ok
                    THEN [@ EXCEPT !.pc = "sleep",
                                   !.trace = Append(@, Did("cmd", commandMeasureHighPrecision))]
                    ELSE [@ EXCEPT !.pc = "sleep", !.err = "bus error",
                                   !.trace = Append(@, Did("cmdfail", commandMeasureHighPrecision))]]
    /\ UNCHANGED <<mu, stop, wg, thr, stopClosed, sensingClosed, spawned, dev, calc>>

\* d.sense: the measurement command.
WorkerSend(k) ==
    /\ wk[k].pc = "send"
    /\ \E ok \in BOOLEAN :
        /\ wk' = [wk EXCEPT ![k] =
                    IF ok
                    THEN [@ EXCEPT !.pc = "sleep",
                                   !.trace = Append(@, Did("cmd", commandMeasureHighPrecision))]
                    ELSE [@ EXCEPT !.pc = "unlock", !.err = "bus error",
                                   !.trace = Append(@, Did("cmdfail", commandMeasureHighPrecision))]]
    /\ UNCHANGED <<mu, stop, wg, thr, stopClosed, sensingClosed, spawned, dev, calc>>

\* d.sense: time.Sleep(10 * time.Millisecond).
WorkerSleep(k) ==
    /\ wk[k].pc = "sleep"
    /\ wk' = [wk EXCEPT ![k] = [@ EXCEPT !.pc = "read", !.trace = Append(@, Did("sleep", 10))]]
    /\ UNCHANGED <<mu, stop, wg, thr, stopClosed, sensingClosed, spawned, dev, calc>>

\* d.parseTemperature(&e).
WorkerRead(k) ==
    /\ wk[k].pc = "read"
    /\ \E ok \in BOOLEAN, data \in Responses :
        /\ wk' = [wk EXCEPT ![k] =
                    IF ok
                    THEN [@ EXCEPT !.pc = "unlock",
                                   !.err = ParseData(data, wk[k].e).err,
                                   !.e = ParseData(data, wk[k].e).env,
                                   !.trace = Append(@, Did("read", 6))]
                    ELSE [@ EXCEPT !.pc = "unlock", !.err = "bus error",
                                   !.trace = Append(@, Did("readfail", 6))]]
    /\ UNCHANGED <<mu, stop, wg, thr, stopClosed, sensingClosed, spawned, dev, calc>>

WorkerUnlockRetry(k) ==
    /\ wk[k].pc = "unlock"
    /\ mu' = Free
    /\ wk' = [wk EXCEPT ![k] = [@ EXCEPT !.pc = IF wk[k].err # "nil" THEN "lock" ELSE "deliver",
                                          !.trace = <<>>]]
    /\ UNCHANGED <<stop, wg, thr, stopClosed, sensingClosed, spawned, dev, calc>>

\* d.mu.Unlock(); if err != nil { ...; return }.
WorkerUnlock(k) ==
    /\ wk[k].pc = "unlock"
    /\ mu' = Free
    /\ wk' = [wk EXCEPT ![k] = [@ EXCEPT !.pc = IF wk[k].err # "nil" THEN "exit" ELSE "deliver",
                                          !.trace = <<>>]]
    /\ UNCHANGED <<stop, wg, thr, stopClosed, sensingClosed, spawned, dev, calc>>

\* The stop channel the worker was given is closed (a nil channel never is).
Stopped(k) == wk[k].stop # 0 /\ stopClosed[wk[k].stop]

\* select { case sensing <- e: ; case <-stop: return }: the consumer takes the
\* sample, or the closed stop channel is received from; with both ready the
\* select picks either.
WorkerDeliver(k) ==
    /\ wk[k].pc = "deliver"
    /\ \/ /\ wk' = [wk EXCEPT ![k] = [@ EXCEPT !.pc = "wait", !.e = ZeroEnv]]
       \/ /\ Stopped(k)
          /\ wk' = [wk EXCEPT ![k] = [@ EXCEPT !.pc = "exit", !.e = ZeroEnv]]
    /\ UNCHANGED <<mu, stop, wg, thr, stopClosed, sensingClosed, spawned, dev, calc>>

\* select { case <-stop: return; case <-t.C: }: the tick starts the next cycle.
WorkerWait(k) ==
    /\ wk[k].pc = "wait"
    /\ \/ /\ Stopped(k)
          /\ wk' = [wk EXCEPT ![k].pc = "exit"]
       \/ /\ wk' = [wk EXCEPT ![k].pc = "lock"]
    /\ UNCHANGED <<mu, stop, wg, thr, stopClosed, sensingClosed, spawned, dev, calc>>

\* The goroutine's deferred calls, last deferred first: t.Stop(),
\* close(sensing), then d.wg.Done().
WorkerExit(k) ==
    \/ /\ wk[k].pc = "exit"
       /\ sensingClosed' = [sensingClosed EXCEPT ![k] = TRUE]
       /\ wk' = [wk EXCEPT ![k].pc = "closed"]
       /\ UNCHANGED <<mu, stop, wg, thr, stopClosed, spawned, dev, calc>>
    \/ /\ wk[k].pc = "closed"
       /\ wg' = wg - 1
       /\ wk' = [wk EXCEPT ![k] = [NoWorker EXCEPT !.pc = "done"]]
       /\ UNCHANGED <<mu, stop, thr, stopClosed, sensingClosed, spawned, dev, calc>>

sensingContinuous(k) ==
    \/ WorkerStart(k) \/ WorkerLock(k) \/ WorkerSend(k) \/ WorkerSleep(k)
    \/ WorkerRead(k) \/ WorkerUnlock(k) \/ WorkerDeliver(k) \/ WorkerWait(k)
    \/ WorkerExit(k)

\* ------------------------------------------------- New

\* No handle yet: New has not been called.
InitNew ==
    /\ mu = Free
    /\ stop = 0
    /\ wg = 0
    /\ thr = [t \in Callers |-> IdleThread]
    /\ wk = [k \in Workers |-> NoWorker]
    /\ stopClosed = [k \in Workers |-> FALSE]
    /\ sensingClosed = [k \in Workers |-> FALSE]
    /\ spawned = 0
    /\ dev = [state |-> "none", Serial |-> Zero32]
    /\ calc = NoCalc

\* A thread calls New (again, after a New that failed): d := &Dev{...}.
NewCall(t) ==
    /\ dev.state \in {"none", "failed"}
    /\ thr[t].pc = "idle"
    /\ dev' = [state |-> "building", Serial |-> Zero32]
    /\ thr' = [thr EXCEPT ![t] = [IdleThread EXCEPT !.pc = "reset", !.op = "New"]]
    /\ UNCHANGED <<mu, stop, wg, wk, stopClosed, sensingClosed, spawned, calc>>

\* d.Reset(): err := d.c.Tx([]byte{commandSoftReset}, nil).
NewReset(t) ==
    /\ thr[t].pc = "reset" /\ thr[t].op = "New"
    /\ \E ok \in BOOLEAN :
        thr' = [thr EXCEPT ![t] =
                  [@ EXCEPT !.pc = "resetsleep",
                            !.ret = IF ok THEN "nil" ELSE "bus error",
                            !.trace = Append(@, Did(IF ok THEN "cmd" ELSE "cmdfail", commandSoftReset))]]
    /\ UNCHANGED <<mu, stop, wg, wk, stopClosed, sensingClosed, spawned, dev, calc>>

NewResetSleepIgnoreErr(t) ==
    /\ thr[t].pc = "resetsleep" /\ thr[t].op = "New"
    /\ thr' = [thr EXCEPT ![t] =
                 [@ EXCEPT !.pc = "serial", !.ret = "nil",
                           !.trace = Append(@, Did("sleep", 1))]]
    /\ UNCHANGED <<mu, stop, wg, wk, stopClosed, sensingClosed, spawned, dev, calc>>

\* d.Reset(): time.Sleep(1 * time.Millisecond); return err; and New's
\* if err != nil { return nil, err }.
NewResetSleep(t) ==
    /\ thr[t].pc = "resetsleep" /\ thr[t].op = "New"
    /\ thr' = [thr EXCEPT ![t] =
                 [@ EXCEPT !.pc = IF thr[t].ret # "nil" THEN "return" ELSE "serial",
                           !.trace = Append(@, Did("sleep", 1))]]
    /\ UNCHANGED <<mu, stop, wg, wk, stopClosed, sensingClosed, spawned, dev, calc>>

\* d.GetSerial(): the serial-read command; on failure d.Serial, err = 0, err.
NewSerialSend(t) ==
    /\ thr[t].pc = "serial" /\ thr[t].op = "New"
    /\ \E ok \in BOOLEAN :
        /\ thr' = [thr EXCEPT ![t] =
                     IF ok
                     THEN [@ EXCEPT !.pc = "serialsleep",
                                    !.trace = Append(@, Did("cmd", commandReadSerialNumber))]
                     ELSE [@ EXCEPT !.pc = "return", !.ret = "bus error", !.serial = Zero32,
                                    !.trace = Append(@, Did("cmdfail", commandReadSerialNumber))]]
        /\ dev' = IF ok THEN dev ELSE [dev EXCEPT !.Serial = Zero32]
    /\ UNCHANGED <<mu, stop, wg, wk, stopClosed, sensingClosed, spawned, calc>>

\* d.GetSerial(): time.Sleep(1 * time.Millisecond).
NewSerialSleep(t) ==
    /\ thr[t].pc = "serialsleep" /\ thr[t].op = "New"
    /\ thr' = [thr EXCEPT ![t] = [@ EXCEPT !.pc = "serialread", !.trace = Append(@, Did("sleep", 1))]]
    /\ UNCHANGED <<mu, stop, wg, wk, stopClosed, sensingClosed, spawned, dev, calc>>

\* d.Serial, err = d.GetSerial(): the read, the two checksums, the number.
NewSerialRead(t) ==
    /\ thr[t].pc = "serialread" /\ thr[t].op = "New"
    /\ \E ok \in BOOLEAN, data \in Responses :
        /\ thr' = [thr EXCEPT ![t] =
                     IF ok
                     THEN [@ EXCEPT !.pc = "return", !.data = data,
                                    !.ret = ParseSerial(data).err,
                                    !.serial = ParseSerial(data).val,
                                    !.trace = Append(@, Did("read", 6))]
                     ELSE [@ EXCEPT !.pc = "return", !.ret = "bus error", !.serial = Zero32,
                                    !.trace = Append(@, Did("readfail", 6))]]
        /\ dev' = [dev EXCEPT !.Serial = IF ok THEN ParseSerial(data).val ELSE Zero32]
    /\ UNCHANGED <<mu, stop, wg, wk, stopClosed, sensingClosed, spawned, calc>>

\* return nil, err or return d, nil: only the latter hands the handle out.
NewReturn(t) ==
    /\ thr[t].pc = "return" /\ thr[t].op = "New"
    /\ dev' = [dev EXCEPT !.state = IF thr[t].ret = "nil" THEN "ready" ELSE "failed"]
    /\ thr' = [thr EXCEPT ![t] = IdleThread]
    /\ UNCHANGED <<mu, stop, wg, wk, stopClosed, sensingClosed, spawned, calc>>

New(t) ==
    \/ NewCall(t) \/ NewReset(t) \/ NewResetSleep(t) \/ NewSerialSend(t)
    \/ NewSerialSleep(t) \/ NewSerialRead(t) \/ NewReturn(t)

\* ------------------------------------------------- the pure functions, applied

\* The values of a 16-bit tick count.
Ticks == 0..65535
\* Bytes with no bit, one bit, the top bit, all but the top bit and every bit set.
SomeBytes == {0, 1, 102, 127, 128, 255}

\* The 3-byte block with bit i of its 24 bits flipped (bit 0 is the lowest
\* bit of the first byte).
FlipBlock(block, i) ==
    [block EXCEPT ![(i \div 8) + 1] = Xor8[block[(i \div 8) + 1]][2 ^ (i % 8)]]

\* checksum of two bytes, and verifyChecksum of the block they make with it
\* and of that block with each one of its bits flipped.
ApplyChecksum ==
    /\ calc.fn = "none"
    /\ \E a \in Bytes, b \in Bytes :
        calc' = [fn |-> "checksum", in |-> <<a, b>>,
                 out |-> [crc |-> checksum(<<a, b>>),
                          verify |-> verifyChecksum(<<a, b, checksum(<<a, b>>)>>),
                          flipped |-> [i \in 0..23 |->
                              verifyChecksum(FlipBlock(<<a, b, checksum(<<a, b>>)>>, i))]]]
    /\ UNCHANGED <<mu, stop, wg, thr, wk, stopClosed, sensingClosed, spawned, dev>>

\* verifyChecksum of the first n bytes of a response, for every n.
ApplyVerify ==
    /\ calc.fn = "none"
    /\ \E r \in Responses, n \in 0..6 :
        calc' = [fn |-> "verifyChecksum", in |-> SubSeq(r, 1, n),
                 out |-> verifyChecksum(SubSeq(r, 1, n))]
    /\ UNCHANGED <<mu, stop, wg, thr, wk, stopClosed, sensingClosed, spawned, dev>>

\* GetSerial's decoding of a response whose two blocks are sound.
ApplySerial ==
    /\ calc.fn = "none"
    /\ \E a \in SomeBytes, b \in SomeBytes, c \in SomeBytes, d \in SomeBytes :
        calc' = [fn |-> "GetSerial", in |-> Frame(a, b) \o Frame(c, d),
                 out |-> ParseSerial(Frame(a, b) \o Frame(c, d))]
    /\ UNCHANGED <<mu, stop, wg, thr, wk, stopClosed, sensingClosed, spawned, dev>>

\* parseTemperature's decoding of a sound response with humidity ticks t.
ApplyParse ==
    /\ calc.fn = "none"
    /\ \E t \in Ticks :
        calc' = [fn |-> "parseTemperature",
                 in |-> Frame(102, 102) \o Frame(t \div 256, t % 256),
                 out |-> ParseData(Frame(102, 102) \o Frame(t \div 256, t % 256), PriorEnv)]
    /\ UNCHANGED <<mu, stop, wg, thr, wk, stopClosed, sensingClosed, spawned, dev>>

\* ------------------------------------------------- the specification

Next ==
    \/ \E t \in Callers :
        \/ Call(t) \/ Lock(t) \/ Unlock(t) \/ Return(t)
        \/ Sense(t) \/ SenseContinuous(t) \/ Halt(t) \/ ActivateHeater(t)
        \/ GetSerial(t) \/ Reset(t)
    \/ \E k \in Workers : sensingContinuous(k)

Spec == Init /\ [][Next]_vars

\* The methods that take the lock, with every heater mode.
LockingOps == {"Sense", "SenseContinuous", "Halt", "ActivateHeater"}

NextHeater ==
    \/ \E t \in Callers :
        \/ CallOf(t, LockingOps, Modes) \/ Lock(t) \/ Unlock(t)
        \/ Sense(t) \/ SenseContinuous(t) \/ Halt(t) \/ ActivateHeater(t)
    \/ \E k \in Workers : sensingContinuous(k)

SpecHeater == Init /\ [][NextHeater]_vars

\* Construction, then the handle in use.
NextNew == (\E t \in Callers : New(t)) \/ Next

SpecNew == InitNew /\ [][NextNew]_vars

\* The pure functions alone, each applied once to every input.
NextPure ==
    \/ ApplyChecksum
    \/ ApplyVerify
    \/ ApplySerial
    \/ ApplyParse

SpecPure == Init /\ [][NextPure]_vars

\* ------------------------------------------------- what a step did

BusKinds == {"cmd", "cmdfail", "read", "readfail"}

\* The trace grew by a bus transfer: the step performed one.
Grew(old, new) ==
    /\ Len(new) = Len(old) + 1
    /\ new[Len(new)].k \in BusKinds

\* Caller thread t performs a bus transfer in this step.
CallerTx(t) == Grew(thr[t].trace, thr'[t].trace)
\* Worker k performs a bus transfer in this step.
WorkerTx(k) == Grew(wk[k].trace, wk'[k].trace)
\* Worker k hands a sample to its consumer in this step.
WorkerSends(k) == wk[k].pc = "deliver" /\ wk'[k].pc = "wait"
\* The step is one of caller thread t.
StepOf(t) == thr'[t] # thr[t]

\* Worker k has been spawned and has not returned.
Live(k) == wk[k].pc \notin {"none", "done"}
\* The handle's continuous-sampling state.
Sampling == <<stop, wg, wk, stopClosed, sensingClosed, spawned>>

\* ------------------------------------------------- C1

C1_State ==
    /\ Cardinality({k \in Workers : Live(k)}) <= 1
    /\ \A k \in Workers : wk[k].pc # "none" =>
         \A j \in 1..(k - 1) :
            wk[j].pc = "done" /\ stopClosed[j] /\ sensingClosed[j]

C1_Step ==
    \A k \in Workers : wk[k].pc = "done" =>
        wk'[k].pc = "done" /\ ~WorkerTx(k) /\ ~WorkerSends(k)

\* C1: at most one continuous-sampling worker is live at any time; when a
\* worker is spawned, every worker spawned before it has been cancelled (its
\* stop channel closed) and has fully exited (its sample channel closed, its
\* goroutine returned), and a worker that has exited never performs a bus
\* transfer or delivers a sample again.
C1_OneWorker == [](C1_State) /\ [][C1_Step]_vars

\* A SenseContinuous call that found worker 1's stop channel present has
\* closed it, waited, and spawned worker 2, worker 1 having exited.
C1_Witness ==
    \E t \in Callers :
        /\ thr[t].op = "SenseContinuous" /\ thr[t].pc = "unlock"
        /\ thr[t].closed = 1
        /\ wk[1].pc = "done" /\ wk[2].pc = "spawned" /\ stop = 2

\* ------------------------------------------------- C2

\* C2 (as claimed): every bus transfer on the handle is performed by a
\* process that holds d.mu, GetSerial's and Reset's included.
C2_EveryTransferUnderLock ==
    [][/\ \A t \in Callers : CallerTx(t) => mu = Caller(t)
       /\ \A k \in Workers : WorkerTx(k) => mu = Worker(k)]_vars

\* ------------------------------------------------- C3

\* A caller of ActivateHeater between its command and the end of its read.
HeaterBusy(t) ==
    thr[t].op = "ActivateHeater" /\ thr[t].pc \in {"sleep", "read"}
\* A worker between its measurement command and the end of its read.
CycleBusy(k) == wk[k].pc \in {"sleep", "read"}
\* A caller of Sense between its measurement command and the end of its read.
SenseBusy(t) == thr[t].op = "Sense" /\ thr[t].pc \in {"sleep", "read"}

C3_State ==
    \A t \in Callers : HeaterBusy(t) =>
        /\ mu = Caller(t)
        /\ \A k \in Workers : ~CycleBusy(k)
        /\ \A u \in Callers : ~SenseBusy(u)

C3_Step ==
    /\ \A t \in Callers : HeaterBusy(t) =>
        /\ \A k \in Workers : ~WorkerTx(k)
        /\ \A u \in Callers \ {t} : thr[u].op \in {"Sense", "ActivateHeater"} => ~CallerTx(u)
    /\ \A k \in Workers : CycleBusy(k) =>
        \A t \in Callers : thr[t].op = "ActivateHeater" => ~CallerTx(t)
    /\ \A u \in Callers : SenseBusy(u) =>
        \A t \in Callers : thr[t].op = "ActivateHeater" => ~CallerTx(t)

\* C3: from the heater command of an ActivateHeater call to the end of its
\* response read the call holds d.mu, no worker cycle and no Sense call is
\* between its own command and read, and none of them performs a bus
\* transfer; and no heater command or heater read is performed while a
\* worker cycle or a Sense call is between its command and its read.
C3_HeaterExclusive == [](C3_State) /\ [][C3_Step]_vars

\* ActivateHeater is about to read its response while a worker and a Sense
\* call both wait for the lock.
C3_Witness ==
    \E t, u \in Callers, k \in Workers :
        /\ thr[t].op = "ActivateHeater" /\ thr[t].pc = "read"
        /\ thr[u].op = "Sense" /\ thr[u].pc = "lock"
        /\ wk[k].pc = "lock"

\* ------------------------------------------------- C4

\* A Sense call that has found d.stop present.
Rejected(t) ==
    /\ thr[t].op = "Sense" /\ thr[t].pc = "unlock"
    /\ thr[t].ret = "already sensing continuously"

C4_Step ==
    \A t \in Callers :
        /\ (thr[t].op = "Sense" /\ thr[t].pc = "check" /\ stop # 0 /\ StepOf(t)) =>
              /\ Rejected(t)'
              /\ thr'[t].e = thr[t].e
              /\ ~CallerTx(t)
              /\ Sampling' = Sampling
        /\ (Rejected(t) /\ StepOf(t)) =>
              /\ thr'[t].pc = "idle"
              /\ ~CallerTx(t)
              /\ Sampling' = Sampling

\* C4: a Sense call that finds continuous sampling active (d.stop present)
\* returns the already-sensing error; it performs no bus transfer, leaves the
\* caller's Env as it was, and no step of it changes d.stop, the wait group,
\* a worker or a channel.
C4_SenseRejected ==
    /\ [](\A t \in Callers : Rejected(t) => thr[t].trace = <<>>)
    /\ [][C4_Step]_vars

\* A Sense call passed an Env that holds a reading is rejected while the
\* worker is in the middle of a cycle's hand-over and its stream is open.
C4_Witness ==
    \E t \in Callers, k \in Workers :
        /\ Rejected(t) /\ thr[t].e = PriorEnv
        /\ wk[k].pc = "deliver" /\ ~sensingClosed[k] /\ stop = k

\* ------------------------------------------------- C5

\* C5 (as claimed): a Sense call made while continuous sampling is active
\* never has to wait: when it is about to take d.mu, d.mu is free.
C5_SenseNeverWaits ==
    \A t \in Callers :
        (thr[t].op = "Sense" /\ thr[t].pc = "lock" /\ stop # 0) => mu = Free

\* ------------------------------------------------- C6

\* A Halt call that has found d.stop absent.
HaltedIdle(t) ==
    thr[t].op = "Halt" /\ thr[t].pc = "unlock" /\ thr[t].closed = 0

C6_Step ==
    \A t \in Callers :
        /\ (thr[t].op = "Halt" /\ thr[t].pc = "check" /\ stop = 0 /\ StepOf(t)) =>
              /\ HaltedIdle(t)'
              /\ thr'[t].ret = "nil"
              /\ ~CallerTx(t)
              /\ Sampling' = Sampling
        /\ (HaltedIdle(t) /\ StepOf(t)) =>
              /\ thr'[t].pc = "idle"
              /\ ~CallerTx(t)
              /\ Sampling' = Sampling

\* C6: a Halt call that finds the handle idle (d.stop absent: before any
\* SenseContinuous, or after a Halt) returns nil; it performs no bus
\* transfer, closes no channel and leaves d.stop absent and the wait group,
\* the workers and the channels as they were.
C6_HaltIdle ==
    /\ [](\A t \in Callers : HaltedIdle(t) =>
            thr[t].ret = "nil" /\ thr[t].trace = <<>> /\ stop = 0)
    /\ [][C6_Step]_vars

\* A Halt call returns from an idle handle whose one worker an earlier call
\* has stopped.
C6_Witness ==
    \E t \in Callers :
        /\ HaltedIdle(t)
        /\ spawned = 1 /\ stopClosed[1] /\ wk[1].pc = "done"

\* ------------------------------------------------- C7

\* A Halt call that has closed a stop channel and is past d.wg.Wait().
HaltedWorker(t) ==
    thr[t].op = "Halt" /\ thr[t].pc = "unlock" /\ thr[t].closed # 0

C7_State ==
    \A t \in Callers : HaltedWorker(t) =>
        /\ wk[thr[t].closed].pc = "done"
        /\ sensingClosed[thr[t].closed]
        /\ \A k \in Workers : ~Live(k)
        /\ stop = 0 /\ wg = 0 /\ thr[t].ret = "nil"

C7_Step ==
    /\ \A k \in Workers : wk[k].pc = "done" =>
         wk'[k] = wk[k] /\ ~WorkerTx(k) /\ ~WorkerSends(k) /\ sensingClosed'[k]
    /\ \A t \in Callers : (HaltedWorker(t) /\ StepOf(t)) =>
         /\ thr'[t].pc = "idle" /\ mu' = Free
         /\ stop' = 0 /\ \A k \in Workers : ~Live(k)'

\* C7: when a Halt call that found continuous sampling started returns, the
\* worker has exited, its sample stream is closed, no worker is live, d.stop
\* is absent and the lock is released; an exited worker never performs a bus
\* transfer or delivers a sample afterwards.
C7_HaltWaits == [](C7_State) /\ [][C7_Step]_vars

\* A Halt call has closed the stop channel of worker 1 and is past its wait:
\* worker 1 has returned and its stream is closed.
C7_Witness ==
    \E t \in Callers :
        /\ HaltedWorker(t) /\ thr[t].closed = 1
        /\ wk[1].pc = "done" /\ sensingClosed[1]

\* ------------------------------------------------- C8

C8_State ==
    \A k \in Workers :
        /\ wk[k].err # "nil" => wk[k].pc \in {"unlock", "exit", "closed"}
        /\ wk[k].pc \in {"closed", "done"} => sensingClosed[k]

C8_Step ==
    \A k \in Workers : wk[k].err # "nil" =>
        /\ ~WorkerTx(k) /\ ~WorkerSends(k)
        /\ wk'[k].pc \in {"unlock", "exit", "closed", "done"}
        /\ wk'[k].pc = "unlock" => wk'[k] = wk[k]

\* C8: a worker whose measurement failed (bus error or checksum error)
\* terminates: from the failure on it performs no bus transfer and delivers
\* no sample, it only releases the lock, closes its stream and returns.
C8_WorkerFailStop == [](C8_State) /\ [][C8_Step]_vars

\* A worker whose read failed its checksum has closed its stream.
C8_Witness ==
    \E k \in Workers :
        wk[k].pc = "closed" /\ wk[k].err = "invalid checksum" /\ sensingClosed[k]

\* ------------------------------------------------- C9

\* The six heater modes constants.go defines.
DefinedModes == {0, 1, 2, 3, 4, 5}

C9_State ==
    \A t \in Callers :
        (/\ thr[t].op = "ActivateHeater" /\ thr[t].mode \notin DefinedModes
         /\ thr[t].pc \notin {"lock", "check"}) =>
            /\ thr[t].pc = "unlock"
            /\ thr[t].ret = "invalid heater mode"
            /\ thr[t].trace = <<>>
            /\ thr[t].e = ZeroEnv
            /\ mu = Caller(t)

C9_Step ==
    \A t \in Callers :
        (thr[t].op = "ActivateHeater" /\ thr[t].mode \notin DefinedModes) =>
            /\ ~CallerTx(t)
            /\ (thr[t].pc = "unlock" /\ StepOf(t)) => (mu' = Free /\ thr'[t].pc = "idle")

\* C9: ActivateHeater with a mode that is none of the six defined ones
\* returns the invalid-mode error without a bus transfer, and its return
\* releases the lock.
C9_InvalidMode == [](C9_State) /\ [][C9_Step]_vars

\* ActivateHeater(HeaterHighLong + 1) is about to return its error while a
\* Sense call waits for the lock.
C9_Witness ==
    \E t, u \in Callers :
        /\ thr[t].op = "ActivateHeater" /\ thr[t].mode = 6
        /\ thr[t].pc = "unlock" /\ thr[t].ret = "invalid heater mode"
        /\ thr[u].op = "Sense" /\ thr[u].pc = "lock"

\* ------------------------------------------------- C10

\* The command byte of each defined mode, as the data sheet names them.
ExpectedByte(mode) ==
    CASE mode = 0 -> 21 [] mode = 1 -> 30 [] mode = 2 -> 36
      [] mode = 3 -> 47 [] mode = 4 -> 50 [] mode = 5 -> 57

\* The time (ms) a call holds before it reads: 110 for the short modes, 1100
\* for the long ones.
ExpectedHold(mode) == IF mode \in {1, 3, 5} THEN 1100 ELSE 110

\* C10: an ActivateHeater call with a defined mode, when it returns, has sent
\* one command, the mode's byte, and then either failed there and read
\* nothing, or slept the mode's hold time and then made one 6-byte read.
C10_HeaterCycle ==
    \A t \in Callers :
        (/\ thr[t].op = "ActivateHeater" /\ thr[t].mode \in DefinedModes
         /\ thr[t].pc = "unlock") =>
            LET b == ExpectedByte(thr[t].mode)
                h == ExpectedHold(thr[t].mode)
            IN  \/ /\ thr[t].trace = <<Did("cmdfail", b)>>
                   /\ thr[t].ret = "bus error"
                \/ /\ thr[t].trace = <<Did("cmd", b), Did("sleep", h), Did("read", 6)>>
                   /\ thr[t].ret \in {"nil", "invalid checksum"}
                \/ /\ thr[t].trace = <<Did("cmd", b), Did("sleep", h), Did("readfail", 6)>>
                   /\ thr[t].ret = "bus error"

\* ActivateHeater(HeaterMediumLong) returns a measurement after command 0x2F,
\* 1.1 s and one read.
C10_Witness ==
    \E t \in Callers :
        /\ thr[t].op = "ActivateHeater" /\ thr[t].mode = 3 /\ thr[t].pc = "unlock"
        /\ thr[t].ret = "nil" /\ thr[t].e # ZeroEnv
        /\ thr[t].trace = <<Did("cmd", 47), Did("sleep", 1100), Did("read", 6)>>

\* ------------------------------------------------- C11

\* What a New call has done when it returns: the reset failed; the reset
\* went through and the serial command failed; or both commands went through
\* and the read ended one way or the other.
C11_State ==
    \A t \in Callers : (thr[t].op = "New" /\ thr[t].pc = "return") =>
        /\ dev.state = "building"
        /\ \/ /\ thr[t].trace = <<Did("cmdfail", 148), Did("sleep", 1)>>
              /\ thr[t].ret # "nil"
           \/ /\ thr[t].trace = <<Did("cmd", 148), Did("sleep", 1), Did("cmdfail", 137)>>
              /\ thr[t].ret # "nil"
           \/ /\ thr[t].trace = <<Did("cmd", 148), Did("sleep", 1), Did("cmd", 137),
                                  Did("sleep", 1), Did("readfail", 6)>>
              /\ thr[t].ret # "nil"
           \/ /\ thr[t].trace = <<Did("cmd", 148), Did("sleep", 1), Did("cmd", 137),
                                  Did("sleep", 1), Did("read", 6)>>
              /\ thr[t].ret = "nil" <=>
                    (/\ thr[t].data[3] = checksum(<<thr[t].data[1], thr[t].data[2]>>)
                     /\ thr[t].data[6] = checksum(<<thr[t].data[4], thr[t].data[5]>>))
              /\ thr[t].ret = "nil" =>
                    dev.Serial = <<thr[t].data[1], thr[t].data[2], thr[t].data[4], thr[t].data[5]>>

C11_Step ==
    \A t \in Callers : (thr[t].op = "New" /\ thr[t].pc = "return" /\ StepOf(t)) =>
        /\ dev'.state = IF thr[t].ret = "nil" THEN "ready" ELSE "failed"
        /\ dev'.Serial = dev.Serial

\* C11: New sends the soft reset, then the serial-read command, in that
\* order; if the reset fails it sends nothing more, and if the reset or the
\* serial read fails (bus or checksum) it returns no handle; when it returns
\* a handle, d.Serial is the number in the response it read.  No method runs
\* on a handle New has not returned.
C11_Construction ==
    /\ [](C11_State)
    /\ [](dev.state # "ready" =>
            \A t \in Callers : thr[t].op \in {"none", "New"})
    /\ [][C11_Step]_vars

\* New is about to return a handle whose d.Serial it has read.
C11_Witness ==
    \E t \in Callers :
        /\ thr[t].op = "New" /\ thr[t].pc = "return" /\ thr[t].ret = "nil"
        /\ dev.Serial = <<102, 102, 128, 0>>

\* ------------------------------------------------- C12

\* The bits of a byte, most significant first.
ByteBits(b) == [i \in 1..8 |-> (b \div (2 ^ (8 - i))) % 2]
\* The byte with these bits.
BitsByte(bits) ==
    (128 * bits[1]) + (64 * bits[2]) + (32 * bits[3]) + (16 * bits[4])
        + (8 * bits[5]) + (4 * bits[6]) + (2 * bits[7]) + bits[8]
\* x^8 + x^5 + x^4 + 1: the polynomial 0x31 with its leading term.
Poly == <<1, 0, 0, 1, 1, 0, 0, 0, 1>>

RECURSIVE PolyMod(_, _)
\* The remainder of the 24-bit string bits modulo Poly, by long division
\* from bit i on.
PolyMod(bits, i) ==
    IF i > 16 THEN bits
    ELSE PolyMod(IF bits[i] = 1
                 THEN [j \in 1..24 |->
                          IF j >= i /\ j <= i + 8 THEN (bits[j] + Poly[j - i + 1]) % 2 ELSE bits[j]]
                 ELSE bits,
                 i + 1)

\* CRC-8 of two bytes with initial value 0xFF and polynomial 0x31, most
\* significant bit first: the initial value inverts the first byte, and the
\* CRC is the remainder of the message followed by eight zero bits.
Crc8(d) ==
    LET rem == PolyMod(ByteBits(255 - d[1]) \o ByteBits(d[2]) \o ByteBits(0), 1)
    IN  BitsByte([j \in 1..8 |-> rem[16 + j]])

\* C12: for every two bytes d, checksum(d) is the CRC-8 (initial value 0xFF,
\* polynomial 0x31, MSB first) of d, verifyChecksum accepts d followed by
\* checksum(d) and rejects that block with any one of its 24 bits flipped;
\* verifyChecksum rejects every block whose length is not 3.
C12_Checksum ==
    /\ (calc.fn = "checksum") =>
          /\ calc.out.crc = Crc8(calc.in)
          /\ calc.out.verify = "nil"
          /\ \A i \in 0..23 : calc.out.flipped[i] # "nil"
    /\ (calc.fn = "verifyChecksum" /\ Len(calc.in) # 3) =>
          (calc.out = "invalid data length")

\* The checksum of 0xBEEF, 0x92, has been computed and verified.
C12_Witness ==
    /\ calc.fn = "checksum"
    /\ calc.in = <<190, 239>>
    /\ calc.out.crc = 146
    /\ calc.out.verify = "nil"
    /\ calc.out.flipped[23] = "invalid checksum"

\* ------------------------------------------------- C13

\* C13: for every response [A, B, crc1, C, D, crc2] whose CRC bytes are the
\* checksums of (A, B) and of (C, D), GetSerial returns no error and the
\* 32-bit number whose bytes are A, B, C, D from the most significant down.
C13_SerialAssembly ==
    (calc.fn = "GetSerial") =>
        /\ calc.out.err = "nil"
        /\ calc.out.val = <<calc.in[1], calc.in[2], calc.in[4], calc.in[5]>>

\* A serial whose CRC bytes differ from its data bytes has been decoded.
C13_Witness ==
    /\ calc.fn = "GetSerial"
    /\ calc.out.err = "nil"
    /\ calc.out.val = <<128, 1, 255, 127>>
    /\ calc.in[3] # calc.in[4]
    /\ calc.in[6] # calc.in[5]

\* ------------------------------------------------- C14

\* -6 + 125*ticks/65535 percent in units of physic.MicroRH, rounded down:
\* 1250000*ticks/65535 - 60000, with 1250000 = 19*65535 + 4835 (100 percent
\* is 1000000 of these units).
RawMicroRH(ticks) == (19 * ticks) + ((4835 * ticks) \div 65535) - 60000
\* The humidity ticks of the response a measurement decoded.
HumidityTicks == (calc.in[4] * 256) + calc.in[5]

\* C14: for every 16-bit humidity tick value a successful measurement gives
\* the raw humidity clamped to [0, 100] percent, 0 percent for ticks = 0 and
\* 100 percent for ticks = 65535, and reports no error.
C14_HumidityClamped ==
    (calc.fn = "parseTemperature") =>
        /\ calc.out.err = "nil"
        /\ calc.out.env.Humidity >= 0
        /\ calc.out.env.Humidity <= 1000000
        /\ calc.out.env.Humidity =
              (IF RawMicroRH(HumidityTicks) < 0 THEN 0
               ELSE IF RawMicroRH(HumidityTicks) > 1000000 THEN 1000000
               ELSE RawMicroRH(HumidityTicks))
        /\ (HumidityTicks = 0) => (calc.out.env.Humidity = 0)
        /\ (HumidityTicks = 65535) => (calc.out.env.Humidity = 1000000)

\* A raw value above 100 percent has been clamped.
C14_Witness ==
    /\ calc.fn = "parseTemperature"
    /\ HumidityTicks = 65535
    /\ RawMicroRH(HumidityTicks) > 1000000
    /\ calc.out.err = "nil"
    /\ calc.out.env.Humidity = 1000000

\* ------------------------------------------------- C15

\* The settling delay (ms) of each command that has a response: 10 for the
\* high-precision measurement, 1 for the serial number, 110 and 1100 for
\* the 0.1 s and the 1 s heater commands.
SettlingDelay(cmd) ==
    CASE cmd = 253 -> 10
      [] cmd = 137 -> 1
      [] cmd \in {21, 36, 50} -> 110
      [] cmd \in {30, 47, 57} -> 1100
      [] OTHER -> -1

ReadKinds == {"read", "readfail"}

\* Every response read of the trace comes directly after the settling delay
\* of a command that was sent with success directly before the delay.
ReadsSettled(trace) ==
    \A i \in 1..Len(trace) :
        (trace[i].k \in ReadKinds) =>
            /\ i >= 3
            /\ trace[i - 2].k = "cmd"
            /\ SettlingDelay(trace[i - 2].v) > 0
            /\ trace[i - 1] = Did("sleep", SettlingDelay(trace[i - 2].v))

\* No response read follows a command whose transfer failed, unless another
\* command has been sent with success since.
NoReadAfterFailure(trace) ==
    \A i \in 1..Len(trace) :
        (trace[i].k = "cmdfail") =>
            \A j \in (i + 1)..Len(trace) :
                (trace[j].k \in ReadKinds) => (\E c \in (i + 1)..(j - 1) : trace[c].k = "cmd")

\* C15: in every call and in every cycle of a worker, a response read comes
\* after a successful command and that command's whole settling delay, and
\* no read is made when the command failed.
C15_ReadAfterDelay ==
    /\ \A t \in Callers : ReadsSettled(thr[t].trace) /\ NoReadAfterFailure(thr[t].trace)
    /\ \A k \in Workers : ReadsSettled(wk[k].trace) /\ NoReadAfterFailure(wk[k].trace)

\* A worker's cycle and a GetSerial call have both read their response.
C15_Witness ==
    /\ \E k \in Workers :
          wk[k].trace = <<Did("cmd", 253), Did("sleep", 10), Did("read", 6)>>
    /\ \E t \in Callers :
          /\ thr[t].op = "GetSerial"
          /\ thr[t].trace = <<Did("cmd", 137), Did("sleep", 1), Did("read", 6)>>

\* ------------------------------------------------- C16

\* C16 (as claimed): once the stop channel a worker selects on has been
\* closed, the worker hands no further sample to its consumer.
C16_NoDeliveryAfterCancel ==
    [][\A k \in Workers :
          (wk[k].stop = k /\ stopClosed[k]) => ~WorkerSends(k)]_vars

\* ------------------------------------------------- C17

\* The positions at which the worker selects on its stop channel: the
\* delivery select and the tick select.
StopChecks == {"deliver", "wait"}

\* C17 (as claimed): a worker that has sent the measurement command with
\* success is next at a check of its stop channel, before the delay and
\* the read.
C17_CheckAfterSend ==
    [][\A k \in Workers :
          (wk[k].pc = "send" /\ wk'[k].pc # "send" /\ wk'[k].err = "nil")
              => (wk'[k].pc \in StopChecks)]_vars

\* No stop channel is closed while its worker is between the send and the
\* read: closing it takes d.mu, which the worker holds there.
NeverCancelledMidCycle ==
    \A k \in Workers : (wk[k].pc \in {"send", "sleep", "read", "unlock"}) => ~stopClosed[k]

\* ------------------------------------------------- C18

\* The 3-byte block of data that starts at byte i carries the CRC-8 of its
\* two data bytes.
BlockSound(data, i) == data[i + 2] = Crc8(<<data[i], data[i + 1]>>)

ReadingOps == {"Sense", "ActivateHeater", "GetSerial"}

\* C18: the response read of Sense, ActivateHeater and GetSerial succeeds
\* exactly when the transfer succeeds and both blocks of the response carry
\* their CRC; otherwise the call returns the error (the bus error, or the
\* checksum error), the Env is what it was before the read and the serial
\* is 0.  No other step of a call writes the Env.
C18_Step ==
    \A t \in Callers :
        /\ (thr[t].pc = "read" /\ thr[t].op \in ReadingOps /\ StepOf(t)) =>
              /\ thr'[t].pc \in {"unlock", "return"}
              /\ (thr'[t].ret = "nil") <=>
                    /\ thr'[t].trace[Len(thr'[t].trace)] = Did("read", 6)
                    /\ BlockSound(thr'[t].data, 1)
                    /\ BlockSound(thr'[t].data, 4)
              /\ (thr'[t].ret = "bus error") <=>
                    (thr'[t].trace[Len(thr'[t].trace)] = Did("readfail", 6))
              /\ thr'[t].ret \in {"nil", "bus error", "invalid checksum"}
              /\ (thr'[t].ret # "nil") =>
                    (thr'[t].e = thr[t].e /\ thr'[t].serial = Zero32)
              /\ (thr'[t].ret = "nil" /\ thr[t].op # "GetSerial") =>
                    (thr'[t].e.Temperature > 0)
        /\ (thr[t].pc # "idle" /\ thr'[t].pc # "idle" /\ thr'[t].e # thr[t].e) =>
              (thr[t].pc = "read" /\ thr'[t].ret = "nil")

C18_NoPartialResult == [][C18_Step]_vars

\* A Sense call into an Env that held a reading has read a response whose
\* temperature block is sound and whose humidity block is corrupt, and
\* returns the checksum error with the Env as it was.
C18_Witness ==
    \E t \in Callers :
        /\ thr[t].op = "Sense" /\ thr[t].pc = "unlock"
        /\ thr[t].ret = "invalid checksum"
        /\ BlockSound(thr[t].data, 1) /\ ~BlockSound(thr[t].data, 4)
        /\ thr[t].e = PriorEnv

\* ------------------------------------------------- C19

\* Caller thread t is in d.wg.Wait() of Halt or SenseContinuous, holding d.mu.
WaitingForWorker(t) ==
    /\ thr[t].op \in {"Halt", "SenseContinuous"}
    /\ thr[t].pc = "wait"
    /\ mu = Caller(t)
    /\ wg > 0

\* C19 (as claimed): no state has a caller holding d.mu in d.wg.Wait()
\* while the worker it waits for is at d.mu.Lock().
C19_NoLockCycle ==
    \A t \in Callers, k \in Workers :
        ~(WaitingForWorker(t) /\ Live(k) /\ wk[k].pc = "lock")

\* ------------------------------------------------- C20

\* C20 (as claimed): whenever no call is in progress, d.stop is present
\* exactly when a worker is live.
C20_StopTracksWorker ==
    (\A t \in Callers : thr[t].pc = "idle") =>
        ((stop # 0) <=> (\E k \in Workers : Live(k)))

====
